---- MODULE Spec2Model ----
(***************************************************************************)
(* A model of the api-demo repository: the axios instances with their      *)
(* request / response interceptors, the CRUD hooks built on them, and the  *)
(* optimistic mutation hooks (usePut, useDelete) with their cache writes.  *)
(*                                                                         *)
(* Spec     one hook call travelling through one transport instance:       *)
(*          hook -> request interceptor -> network -> response interceptor *)
(*          -> Instance.request -> the hook's envelope check.              *)
(* SpecMut  mutate calls of the optimistic hooks against the query cache.  *)
(***************************************************************************)
EXTENDS Integers, Sequences, FiniteSets, TLC

VARIABLES
  \* ---- the request pipeline (Spec) ----
  hasWindow,   \* typeof window !== "undefined"
  storage,     \* window.localStorage: a function from its keys to strings
  location,    \* window.location.href
  hook,        \* the hook whose function is running ("none" before the call)
  variables,   \* the variables handed to mutate (Undefined for a query)
  options,     \* the options the hook was set up with: params, headers
  credential,  \* the token the request interceptor found (Undefined: not looked up)
  config,      \* the axios request config: url, data, headers
  rpc,         \* position of the call in the pipeline
  sent,        \* number of requests of this instance put on the network
  resp,        \* the HTTP response received: status (0: none) and body
  err,         \* the error travelling down the rejection chain
  intercepted, \* what the response interceptor returned or threw
  instResult,  \* how the promise of Instance.request settled
  outcome,     \* how the hook's queryFn / mutationFn settled
  signedOut,   \* next-auth signOut() completed
  \* ---- the optimistic mutation hooks (SpecMut) ----
  mhook,             \* "usePut" or "useDelete" ("none" under Spec)
  invalidateQueries, \* options.invalidateQueries, a sequence of keys
  refetchQueries,    \* the refetchQueries option of a production hook
  confirmMessage,    \* options.confirmMessage is set (useDelete)
  overrides,         \* the callbacks the caller passed among the options
  cache,             \* the query cache: key -> data (Undefined: no entry)
  invalidated,       \* the keys invalidateQueries was called with
  refetched,         \* the query keys refetchQueries was called with
  calls,             \* the mutate calls: position, variables, context, ...; before is
                     \* the cache at the mutate call, cancelled that the user said
                     \* no to the prompt when no request of the call had gone out,
                     \* log what the call did so far, in order
  \* ---- buildQueryString (SpecQuery) ----
  qsParams,          \* the argument of the call
  qsResult           \* what the call returned (Pending before it)

reqVars == <<hasWindow, storage, location, hook, variables, options, credential, config, rpc, sent,
             resp, err, intercepted, instResult, outcome, signedOut>>

mutVars == <<mhook, invalidateQueries, refetchQueries, confirmMessage, overrides, cache, invalidated,
             refetched, calls>>

qsVars == <<qsParams, qsResult>>

vars == <<reqVars, mutVars, qsVars>>

-----------------------------------------------------------------------------
(* JavaScript values, tagged so that values of different types compare.    *)

Undefined == [t |-> "undefined"]
Null      == [t |-> "null"]
Str(s)    == [t |-> "string", v |-> s]
Num(n)    == [t |-> "number", v |-> n]
Bool(b)   == [t |-> "boolean", v |-> b]
Obj(f)    == [t |-> "object", f |-> f]
Arr(s)    == [t |-> "array", items |-> s]
FormData  == [t |-> "formdata"]

\* ToBoolean of the language: what `if (v)`, `!v` and `a && b` test.
Truthy(v) ==
  CASE v.t = "undefined" -> FALSE
    [] v.t = "null"      -> FALSE
    [] v.t = "string"    -> v.v # ""
    [] v.t = "number"    -> v.v # 0
    [] v.t = "boolean"   -> v.v
    [] OTHER             -> TRUE

\* `${v}` in a template literal.
TemplateString(v) ==
  CASE v.t = "string"    -> v.v
    [] v.t = "number"    -> ToString(v.v)
    [] v.t = "undefined" -> "undefined"
    [] v.t = "null"      -> "null"
    [] v.t = "boolean"   -> IF v.v THEN "true" ELSE "false"
    [] v.t = "array"     -> ""
    [] OTHER             -> "[object Object]"

\* typeof v === 'object' && v !== null
IsNonNullObject(v) == v.t \in {"object", "array", "formdata"}

\* 'k' in v, for a v that is a non-null object
HasField(v, k) == v.t = "object" /\ k \in DOMAIN v.f

\* v.k and v?.k : undefined when the field (or v itself) is missing
Field(v, k) == IF HasField(v, k) THEN v.f[k] ELSE Undefined

\* a ?? b   and   a || b
Coalesce(a, b) == IF a.t \in {"undefined", "null"} THEN b ELSE a
OrElse(a, b)   == IF Truthy(a) THEN a ELSE b

-----------------------------------------------------------------------------
(* Errors.  status is error.response?.status (0: no response), statusCode  *)
(* the field Object.assign adds in the update hook (0: none).              *)

Error(name, message) ==
  [t |-> "error", name |-> name, message |-> message, status |-> 0, statusCode |-> 0]

NoError == Error("", "")

\* what axios rejects with for a response outside 2xx, or for no response
AxiosError(status) ==
  [t |-> "error", name |-> "AxiosError",
   message |-> IF status = 0 THEN "Network Error"
               ELSE "Request failed with status code " \o ToString(status),
   status |-> status, statusCode |-> 0]

Pending     == [k |-> "pending"]
Resolved(v) == [k |-> "resolved", v |-> v]
Rejected(e) == [k |-> "rejected", e |-> e]

-----------------------------------------------------------------------------
(* buildQueryString.  Strings are sequences of one-character strings here,  *)
(* so that the output can be taken apart again.  params is an object: its   *)
(* own keys in the order of Object.keys, a sequence of [key, value] pairs.  *)

Params(entries) == [t |-> "object", entries |-> entries]

DigitChars == <<"0", "1", "2", "3", "4", "5", "6", "7", "8", "9">>

RECURSIVE Digits(_)
Digits(n) ==
  IF n < 10 THEN <<DigitChars[n + 1]>>
  ELSE Digits(n \div 10) \o <<DigitChars[(n % 10) + 1]>>

RECURSIVE Join(_, _)
Join(parts, sep) ==
  IF parts = << >> THEN << >>
  ELSE IF Len(parts) = 1 THEN parts[1]
  ELSE parts[1] \o sep \o Join(Tail(parts), sep)

\* String(v), the coercion encodeURIComponent applies to its argument; an
\* array is its elements joined by commas, null and undefined elements empty
RECURSIVE StringOf(_)
StringOf(v) ==
  CASE v.t = "string"    -> v.v
    [] v.t = "number"    -> Digits(v.v)
    [] v.t = "boolean"   -> IF v.v THEN <<"t", "r", "u", "e">> ELSE <<"f", "a", "l", "s", "e">>
    [] v.t = "null"      -> <<"n", "u", "l", "l">>
    [] v.t = "undefined" -> <<"u", "n", "d", "e", "f", "i", "n", "e", "d">>
    [] v.t = "array"     ->
         Join([i \in 1..Len(v.items) |->
                 IF v.items[i].t \in {"null", "undefined"} THEN << >>
                 ELSE StringOf(v.items[i])], <<",">>)
    [] OTHER             -> <<"[", "o", "b", "j", "e", "c", "t", " ", "O", "b", "j", "e", "c", "t", "]">>

\* the escape of one character: letters, digits and - _ . ! ~ * ' ( ) are kept
EncodeChar(c) ==
  CASE c = " " -> <<"%", "2", "0">>
    [] c = "%" -> <<"%", "2", "5">>
    [] c = "&" -> <<"%", "2", "6">>
    [] c = "," -> <<"%", "2", "C">>
    [] c = "=" -> <<"%", "3", "D">>
    [] c = "?" -> <<"%", "3", "F">>
    [] c = "[" -> <<"%", "5", "B">>
    [] c = "]" -> <<"%", "5", "D">>
    [] OTHER   -> <<c>>

RECURSIVE EncodeChars(_)
EncodeChars(s) ==
  IF s = << >> THEN << >> ELSE EncodeChar(Head(s)) \o EncodeChars(Tail(s))

encodeURIComponent(v) == EncodeChars(StringOf(v))

\* an array value written as one pair, the array coerced to a string
QueryParam_ArrayJoined(key, value) ==
  IF value.t \in {"null", "undefined"} THEN << >>
  ELSE encodeURIComponent(Str(key)) \o <<"=">> \o encodeURIComponent(value)

\* one key's contribution: the body of the .map callback
QueryParam(key, value) ==
  IF value.t \in {"null", "undefined"} THEN << >>
  ELSE IF value.t = "array"
    THEN Join([i \in 1..Len(value.items) |->
                 encodeURIComponent(Str(key)) \o <<"=">> \o
                 encodeURIComponent(value.items[i])], <<"&">>)
    ELSE encodeURIComponent(Str(key)) \o <<"=">> \o encodeURIComponent(value)

\* a filter that keeps every contribution
NonEmptyString_KeepAll(p) == TRUE

\* .filter((param) => param)
NonEmptyString(p) == p # << >>

\* the mark prepended whatever came out of the join
buildQueryString_AlwaysMark(params) ==
  IF params.t # "object" THEN << >>
  ELSE IF Len(params.entries) = 0 THEN << >>
  ELSE LET mapped == [i \in 1..Len(params.entries) |->
                        QueryParam(params.entries[i].key, params.entries[i].value)]
       IN <<"?">> \o Join(SelectSeq(mapped, NonEmptyString), <<"&">>)

buildQueryString(params) ==
  IF params.t # "object" THEN << >>
  ELSE IF Len(params.entries) = 0 THEN << >>
  ELSE LET mapped == [i \in 1..Len(params.entries) |->
                        QueryParam(params.entries[i].key, params.entries[i].value)]
           queryString == Join(SelectSeq(mapped, NonEmptyString), <<"&">>)
       IN IF queryString # << >> THEN <<"?">> \o queryString ELSE << >>

\* the characters as one string, for a url
RECURSIVE Text(_)
Text(chars) == IF chars = << >> THEN "" ELSE Head(chars) \o Text(Tail(chars))

-----------------------------------------------------------------------------
(* The hooks and the transport instance each one imports.                  *)

ProdHooks      == {"useFetchData", "usePostData", "usePutData"}
DemoHooks      == {"useFetchDataDemo", "usePostDataDemo", "usePutDataDemo"}
AxiosDemoHooks == {"useGet"}
Hooks          == ProdHooks \cup DemoHooks \cup AxiosDemoHooks

FetchHooks == {"useFetchData", "useFetchDataDemo"}
PostHooks  == {"usePostData", "usePostDataDemo"}
PutHooks   == {"usePutData", "usePutDataDemo"}

InstanceOf(h) ==
  IF h \in ProdHooks THEN "prod" ELSE IF h \in DemoHooks THEN "demo" ELSE "axiosDemo"

\* the url every hook of the model is configured with
Url == "/posts"

\* axios.create({ headers: { 'Content-Type': ... } })
DefaultContentType(inst) ==
  IF inst = "demo" THEN Str("application/json;charset=utf-8") ELSE Str("application/json")

NoHeaders == [Authorization |-> Undefined, ContentType |-> Undefined,
              XCustomHeader |-> Undefined, XRequestTime |-> Undefined]

\* a shape test that takes either field for the wrapper
IsComposite_Either(v) ==
  IsNonNullObject(v) /\ (HasField(v, "id") \/ HasField(v, "payload"))

\* usePutData.mutationFn: which of the two shapes the variables have
IsComposite(v) ==
  IsNonNullObject(v) /\ HasField(v, "id") /\ HasField(v, "payload")

\* usePutData.mutationFn: finalUrl
PutFinalUrl(url, v) ==
  IF IsComposite(v)
    THEN IF Truthy(Field(v, "id")) THEN url \o "/" \o TemplateString(Field(v, "id")) ELSE url
    ELSE url

\* a body that is the whole wrapper, id included
PutRequestData_Leak(v) == v

\* usePutData.mutationFn: requestData
PutRequestData(v) == IF IsComposite(v) THEN Field(v, "payload") ELSE v

\* The request config a hook hands to its instance (Instance.get / post / put
\* add the method), with the instance's default headers under the caller's.
HookRequest(h, v, params, headers) ==
  LET inst == InstanceOf(h)
      hdrs == [headers EXCEPT !.ContentType = Coalesce(@, DefaultContentType(inst))]
  IN CASE h \in FetchHooks ->
            [method |-> "GET", url |-> Url \o Text(buildQueryString(Params(params))),
             data |-> Undefined, headers |-> hdrs]
       [] h = "useGet" ->
            [method |-> "GET", url |-> Url, data |-> Undefined, headers |-> hdrs]
       [] h \in PostHooks ->
            [method |-> "POST", url |-> Url, data |-> v, headers |-> hdrs]
       [] h \in PutHooks ->
            [method |-> "PUT", url |-> PutFinalUrl(Url, v),
             data |-> PutRequestData(v), headers |-> hdrs]

-----------------------------------------------------------------------------
(* The request interceptors.                                               *)

\* instance.ts line 3: const token = ''
DemoToken == Str("")

\* config.data instanceof FormData / else if (config.data)
SetContentType(cfg) ==
  IF cfg.data.t = "formdata"
    THEN [cfg EXCEPT !.headers.ContentType = Str("multipart/form-data")]
    ELSE IF Truthy(cfg.data)
      THEN [cfg EXCEPT !.headers.ContentType = Str("application/json;charset=utf-8")]
      ELSE cfg

\* config.headers.Authorization = `Bearer ${token}`
SetBearer(cfg, token) ==
  [cfg EXCEPT !.headers.Authorization = Str("Bearer " \o TemplateString(token))]

\* demo instance: the header is written whatever the token is
RequestInterceptorDemo(cfg) == SetContentType(SetBearer(cfg, DemoToken))

\* production instance: accessToken is what getClientToken() resolved with
RequestInterceptorProd(cfg, win, accessToken) ==
  SetContentType(IF win /\ Truthy(accessToken) THEN SetBearer(cfg, accessToken) ELSE cfg)

\* localStorage.getItem(key): null when the key is absent
GetItem(store, key) == IF key \in DOMAIN store THEN Str(store[key]) ELSE Null

\* axiosDemo: trace headers, then the token of localStorage when there is one
RequestInterceptorAxiosDemo(cfg, store) ==
  LET stamped == [cfg EXCEPT !.headers.XCustomHeader = Str("Demo-App"),
                             !.headers.XRequestTime = Str("<now>")]
      token == GetItem(store, "demo_token")
  IN IF Truthy(token) THEN SetBearer(stamped, token) ELSE stamped

-----------------------------------------------------------------------------
(* The response interceptors.  res is [status, data]: the HTTP status and  *)
(* the parsed body.                                                        *)

Response(status, data) == [t |-> "response", status |-> status, data |-> data]

IsSuccessCode(c) == c = Num(200) \/ c = Num(201)

\* demo instance, fulfilled handler: the HTTP status decides, and a status
\* other than 200 / 201 falls off the end of the function
ResponseSuccessDemo(res) ==
  IF ~Truthy(res.data) THEN Rejected(Error("Error", "Error in response"))
  ELSE IF IsSuccessCode(Num(res.status)) THEN Resolved(res.data)
  ELSE Resolved(Undefined)

\* production instance, fulfilled handler: the envelope decides
ResponseSuccessProd(res) ==
  IF ~Truthy(res.data) THEN Rejected(Error("Error", "Error in response"))
  ELSE LET statusCode == Field(res.data, "statusCode")
           error      == Field(res.data, "error")
           hasSuccess == IsSuccessCode(statusCode) /\ error = Bool(FALSE)
       IN IF hasSuccess THEN Resolved(res)
          ELSE Rejected(Error("Error",
                 TemplateString(OrElse(Field(res.data, "message"), Str("Unknown API error")))))

\* axiosDemo, fulfilled handler
ResponseSuccessAxiosDemo(res) == Resolved(res)

ResponseSuccess(inst, res) ==
  CASE inst = "demo" -> ResponseSuccessDemo(res)
    [] inst = "prod" -> ResponseSuccessProd(res)
    [] OTHER         -> ResponseSuccessAxiosDemo(res)

\* window.localStorage.clear()
ClearStorage(store) == << >>

\* rejected handlers: what each does to localStorage on an error
ErrorStorageDemo(e, store) == IF e.status = 401 THEN ClearStorage(store) ELSE store

\* a handler that tears the session down on every error
ErrorStorageProd_AnyStatus(e, win, store) == IF win THEN ClearStorage(store) ELSE store

\* production: only reached when signOut() resolved
ErrorStorageProd(e, win, store) ==
  IF e.status = 401 /\ win THEN ClearStorage(store) ELSE store

\* rejected handlers: window.location.href afterwards.  In the demo instance
\* the assignment is commented out.
ErrorLocationDemo(e, loc) == loc

ErrorLocationProd(e, win, loc) == IF e.status = 401 /\ win THEN "/login" ELSE loc

\* what next-auth's signOut() rejects with when it fails
SignOutError == Error("Error", "signOut failed")

\* what getClientToken() rejects with when it fails
TokenError == Error("Error", "getClientToken failed")

-----------------------------------------------------------------------------
(* Instance.request and the hooks' reading of what it resolved with.       *)

\* production: .then((res) => res.data) ; demo: resolve(res) ;
\* axiosDemo has no wrapper class
InstanceRequest(inst, r) ==
  IF r.k = "resolved" /\ inst = "prod" THEN Resolved(r.v.data) ELSE r

MessageOr(response, default) ==
  TemplateString(OrElse(Field(response, "message"), Str(default)))

MessageCoalesce(response, default) ==
  TemplateString(Coalesce(Field(response, "message"), Str(default)))

\* api/use-fetch.ts queryFn, after the await
FetchResult(response) ==
  IF Field(response, "statusCode") = Num(200)
    THEN Resolved(Field(response, "data"))
    ELSE Rejected(Error("Error", MessageOr(response, "Failed to fetch data")))

\* use-fetch-data queryFn, after the await: the status check is commented out
FetchResultDemo(response) == Resolved(response)

\* usePostData.mutationFn (both files), after the await
PostResult(response) ==
  IF ~Truthy(Field(response, "error")) /\ IsSuccessCode(Field(response, "statusCode"))
    THEN Resolved(Field(response, "data"))
    ELSE Rejected(Error("Error", MessageOr(response, "Failed to post data")))

\* usePutData.mutationFn (both files), after the await
PutResult(response) ==
  LET statusCode   == Field(response, "statusCode")
      errorMessage == MessageCoalesce(response, "An error occurred while updating data")
  IN IF IsSuccessCode(statusCode) THEN Resolved(Field(response, "data"))
     ELSE IF statusCode = Num(400)
       THEN Rejected([Error("Error", errorMessage) EXCEPT !.statusCode = 400])
     ELSE IF statusCode = Num(401)
       THEN Rejected([Error("Error", "Unauthorized") EXCEPT !.statusCode = 401])
     ELSE Rejected(Error("Error", errorMessage))

\* useGet queryFn: const { data } = await axiosDemo.get(...)
GetResult(response) == Resolved(response.data)

\* useQuery: a queryFn that resolves with undefined fails the query
QueryData(r) ==
  IF r.k = "resolved" /\ r.v = Undefined
    THEN Rejected(Error("Error", "Query data cannot be undefined"))
    ELSE r

\* how the hook's function settles, given how its await settled
HookResult(h, r) ==
  IF r.k = "rejected" THEN r
  ELSE CASE h = "useFetchData"     -> QueryData(FetchResult(r.v))
         [] h = "useFetchDataDemo" -> QueryData(FetchResultDemo(r.v))
         [] h \in PostHooks        -> PostResult(r.v)
         [] h \in PutHooks         -> PutResult(r.v)
         [] h = "useGet"           -> QueryData(GetResult(r.v))

-----------------------------------------------------------------------------
(* The inputs of the request pipeline.                                     *)

P1 == Obj([x |-> Num(1)])
D1 == Obj([id |-> Num(1)])

PutVariables ==
  { Obj([id |-> Str("42"), payload |-> P1]),
    Obj([id |-> Str("7"), payload |-> Obj([id |-> Str("9")])]),
    Obj([id |-> Str(""), payload |-> P1]),
    Obj([id |-> Undefined, payload |-> P1]),
    Obj([id |-> Num(0), payload |-> P1]),
    Obj([id |-> Str("42")]),
    Obj([payload |-> P1]),
    P1, Null, Str("text"), Arr(<<P1>>) }

\* bodies handed to post: an object, a multipart form, a bare JSON false
PostVariables == { P1, FormData, Bool(FALSE) }

FetchParams == { << >>, <<[key |-> <<"q">>, value |-> Num(5)]>> }

CallerHeaders == { NoHeaders, [NoHeaders EXCEPT !.Authorization = Str("Basic caller")],
                   [NoHeaders EXCEPT !.ContentType = Str("text/plain")] }

HookVariables(h) ==
  IF h \in PutHooks THEN PutVariables
  ELSE IF h \in PostHooks THEN PostVariables ELSE {Undefined}

HookParams(h) == IF h \in FetchHooks THEN FetchParams ELSE {<< >>}

\* queryOptions without an enabled field, with one
NoQueryOptions == Obj([staleTime |-> Num(0)])

QueryOptionSets ==
  { NoQueryOptions, Obj([enabled |-> Bool(TRUE)]), Obj([enabled |-> Bool(FALSE)]) }

\* the enabled input and the queryOptions of a fetch hook
HookQuery(h) ==
  IF h \in FetchHooks THEN [enabled : BOOLEAN, queryOptions : QueryOptionSets]
  ELSE {[enabled |-> TRUE, queryOptions |-> NoQueryOptions]}

\* useQuery({ enabled: enabled, ...queryOptions }): the options spread last
\* decide; the query runs unless enabled is false
QueryEnabled(enabled, queryOptions) ==
  IF HasField(queryOptions, "enabled")
    THEN Field(queryOptions, "enabled") # Bool(FALSE)
    ELSE enabled

HookHeaders(h) == IF h \in PutHooks \cup PostHooks THEN CallerHeaders ELSE {NoHeaders}

\* the server's envelope { statusCode, error, message?, data? }
Envelope(statusCode, error, message, data) ==
  Obj( [statusCode |-> Num(statusCode), error |-> Bool(error)]
       @@ (IF message = Undefined THEN << >> ELSE "message" :> message)
       @@ (IF data = Undefined THEN << >> ELSE "data" :> data) )

EnvelopeCodes == {200, 201, 400, 401, 404}

Envelopes ==
  { Envelope(c, e, m, d) : c \in EnvelopeCodes, e \in BOOLEAN,
                           m \in {Undefined, Str("not found")}, d \in {Undefined, D1} }

\* 2xx statuses resolve the axios promise, the others (0: no response) reject it
SuccessStatuses == {200, 201, 204}
ErrorStatuses   == {0, 401, 403, 404, 500}

Bodies(status) == IF status \in SuccessStatuses THEN Envelopes \cup {Undefined} ELSE {Undefined}

\* what getClientToken() resolves with
TokenResults == { Str("tok-1"), Str(""), Null }

StorageContents ==
  { << >>, [user |-> "alice"], [user |-> "alice", demo_token |-> "demo-1"] }

-----------------------------------------------------------------------------
(* The request pipeline: one hook call through its instance.               *)

InitReq ==
  /\ hasWindow \in BOOLEAN
  /\ storage \in (IF hasWindow THEN StorageContents ELSE {<< >>})
  /\ location = "/app"
  /\ hook = "none"
  /\ variables = Undefined
  /\ options = [params |-> << >>, headers |-> NoHeaders, enabled |-> TRUE,
                queryOptions |-> NoQueryOptions]
  /\ credential = Undefined
  /\ config = [method |-> "", url |-> "", data |-> Undefined, headers |-> NoHeaders]
  /\ rpc = "idle"
  /\ sent = 0
  /\ resp = Response(0, Undefined)
  /\ err = NoError
  /\ intercepted = Pending
  /\ instResult = Pending
  /\ outcome = Pending
  /\ signedOut = FALSE

\* the hook is mounted; unless its query is disabled its function starts and
\* hands its request to the instance.  The hooks of the demo application only
\* run in a browser
CallHook(h, v, params, headers, query) ==
  /\ rpc = "idle"
  /\ hasWindow \/ h \in ProdHooks
  /\ hook' = h
  /\ variables' = v
  /\ options' = [params |-> params, headers |-> headers, enabled |-> query.enabled,
                 queryOptions |-> query.queryOptions]
  /\ IF QueryEnabled(query.enabled, query.queryOptions)
       THEN config' = HookRequest(h, v, params, headers) /\ rpc' = "request"
       ELSE config' = config /\ rpc' = "disabled"
  /\ UNCHANGED <<hasWindow, storage, location, credential, sent, resp, err, intercepted,
                 instResult, outcome, signedOut>>
  /\ UNCHANGED <<mutVars, qsVars>>

\* request interceptor of the demo instance and of axiosDemo (synchronous)
RequestInterceptor ==
  /\ rpc = "request"
  /\ InstanceOf(hook) # "prod"
  /\ config' = IF InstanceOf(hook) = "demo"
                 THEN RequestInterceptorDemo(config)
                 ELSE RequestInterceptorAxiosDemo(config, storage)
  /\ credential' = IF InstanceOf(hook) = "demo" THEN DemoToken
                                                ELSE GetItem(storage, "demo_token")
  /\ rpc' = "wire"
  /\ UNCHANGED <<hasWindow, storage, location, hook, variables, options, sent, resp, err,
                 intercepted, instResult, outcome, signedOut>>
  /\ UNCHANGED <<mutVars, qsVars>>

\* request interceptor of the production instance; getClientToken() resolved
RequestInterceptorAsync(accessToken) ==
  /\ rpc = "request"
  /\ InstanceOf(hook) = "prod"
  /\ config' = RequestInterceptorProd(config, hasWindow, accessToken)
  /\ credential' = IF hasWindow THEN accessToken ELSE credential
  /\ rpc' = "wire"
  /\ UNCHANGED <<hasWindow, storage, location, hook, variables, options, sent, resp, err,
                 intercepted, instResult, outcome, signedOut>>
  /\ UNCHANGED <<mutVars, qsVars>>

\* an interceptor that swallows the rejection and lets the request go on
RequestInterceptorThrows_FailOpen ==
  /\ rpc = "request"
  /\ InstanceOf(hook) = "prod"
  /\ hasWindow
  /\ err' = TokenError
  /\ rpc' = "wire"
  /\ UNCHANGED <<hasWindow, storage, location, hook, variables, options, credential, config, sent, resp,
                 intercepted, instResult, outcome, signedOut>>
  /\ UNCHANGED <<mutVars, qsVars>>

\* request interceptor of the production instance; getClientToken() rejected:
\* the request is not dispatched and the rejection runs down the chain
RequestInterceptorThrows ==
  /\ rpc = "request"
  /\ InstanceOf(hook) = "prod"
  /\ hasWindow
  /\ err' = TokenError
  /\ rpc' = "rejected"
  /\ UNCHANGED <<hasWindow, storage, location, hook, variables, options, credential, config, sent, resp,
                 intercepted, instResult, outcome, signedOut>>
  /\ UNCHANGED <<mutVars, qsVars>>

\* the request goes out and the server answers (or nothing comes back)
Network(status, body) ==
  /\ rpc = "wire"
  /\ sent' = sent + 1
  /\ resp' = Response(status, body)
  /\ IF status \in SuccessStatuses
       THEN rpc' = "response" /\ err' = err
       ELSE rpc' = "rejected" /\ err' = AxiosError(status)
  /\ UNCHANGED <<hasWindow, storage, location, hook, variables, options, credential, config,
                 intercepted, instResult, outcome, signedOut>>
  /\ UNCHANGED <<mutVars, qsVars>>

\* response interceptor, fulfilled handler
ResponseFulfilled ==
  /\ rpc = "response"
  /\ intercepted' = ResponseSuccess(InstanceOf(hook), resp)
  /\ rpc' = "intercepted"
  /\ UNCHANGED <<hasWindow, storage, location, hook, variables, options, credential, config, sent, resp,
                 err, instResult, outcome, signedOut>>
  /\ UNCHANGED <<mutVars, qsVars>>

\* response interceptor, rejected handler of the demo instance and of axiosDemo
ResponseRejected ==
  /\ rpc = "rejected"
  /\ InstanceOf(hook) # "prod"
  /\ storage' = IF InstanceOf(hook) = "demo" THEN ErrorStorageDemo(err, storage) ELSE storage
  /\ location' = IF InstanceOf(hook) = "demo" THEN ErrorLocationDemo(err, location) ELSE location
  /\ intercepted' = Rejected(err)
  /\ rpc' = "intercepted"
  /\ UNCHANGED <<hasWindow, hook, variables, options, credential, config, sent, resp, err, instResult,
                 outcome, signedOut>>
  /\ UNCHANGED <<mutVars, qsVars>>

\* response interceptor, rejected handler of the production instance, when
\* signOut() is not awaited or resolves
ResponseRejectedAsync ==
  /\ rpc = "rejected"
  /\ InstanceOf(hook) = "prod"
  /\ signedOut' = (err.status = 401 /\ hasWindow)
  /\ storage' = ErrorStorageProd(err, hasWindow, storage)
  /\ location' = ErrorLocationProd(err, hasWindow, location)
  /\ intercepted' = Rejected(err)
  /\ rpc' = "intercepted"
  /\ UNCHANGED <<hasWindow, hook, variables, options, credential, config, sent, resp, err, instResult, outcome>>
  /\ UNCHANGED <<mutVars, qsVars>>

\* the same handler when the awaited signOut() rejects: the async handler
\* rejects with that error before it reaches localStorage.clear()
ResponseRejectedSignOutThrows ==
  /\ rpc = "rejected"
  /\ InstanceOf(hook) = "prod"
  /\ err.status = 401 /\ hasWindow
  /\ intercepted' = Rejected(SignOutError)
  /\ rpc' = "intercepted"
  /\ UNCHANGED <<hasWindow, storage, location, hook, variables, options, credential, config, sent, resp,
                 err, instResult, outcome, signedOut>>
  /\ UNCHANGED <<mutVars, qsVars>>

\* Instance.request settles the promise the hook awaits
InstanceSettles ==
  /\ rpc = "intercepted"
  /\ instResult' = InstanceRequest(InstanceOf(hook), intercepted)
  /\ rpc' = "settled"
  /\ UNCHANGED <<hasWindow, storage, location, hook, variables, options, credential, config, sent, resp,
                 err, intercepted, outcome, signedOut>>
  /\ UNCHANGED <<mutVars, qsVars>>

\* the hook's function resumes after its await and settles
HookSettles ==
  /\ rpc = "settled"
  /\ outcome' = HookResult(hook, instResult)
  /\ rpc' = "done"
  /\ UNCHANGED <<hasWindow, storage, location, hook, variables, options, credential, config, sent, resp,
                 err, intercepted, instResult, signedOut>>
  /\ UNCHANGED <<mutVars, qsVars>>

-----------------------------------------------------------------------------
(* The optimistic mutation hooks usePut and useDelete, run by the mutation *)
(* engine: onMutate, then mutationFn (re-invoked up to `retry` times when  *)
(* it fails), then onSuccess or onError.                                   *)

\* defaultOptions.mutations.retry of the QueryProvider
MutationRetry == 1

\* the number of mutate calls the model follows
MaxCalls == 2

Calls == 1..MaxCalls

Keys == {"posts", "users"}

I2 == Obj([id |-> Str("2")])

\* what the cache may hold under "posts" before the first call
PriorValues == { Undefined, Null, Arr(<< >>), Arr(<<D1, I2>>), Arr(<<I2, P1, D1, I2>>), D1 }

KeyLists == { << >>, <<"posts">>, <<"posts", "users">> }

OverrideSets == { {}, {"onMutate"}, {"onSuccess"}, {"onError"} }

MutateVariables(h) ==
  IF h = "useDelete" THEN {Str("1"), Str("2")}
  ELSE IF h = "useDeleteData" THEN {Undefined} ELSE {P1}

\* the demo mutation hooks; usePost has no onMutate and no rollback
MutationHooks == {"usePost", "usePut", "useDelete"}

\* the production mutation hooks: no optimistic write, a refetch on success
ProdMutationHooks == {"usePostData", "usePutData", "usePatchData"}

\* the mutation hooks that refetch on success: the production hooks and
\* useDeleteData, which has no refetch of the notification list
RefetchHooks == ProdMutationHooks \cup {"useDeleteData"}

\* the refetchQueries a caller passes: nothing, or a list of keys
RefetchInputs == {Undefined} \cup {Arr(k) : k \in KeyLists}

\* the parameter default `refetchQueries = []`, which usePostData lacks
RefetchDefault(h, given) ==
  IF h # "usePostData" /\ given = Undefined THEN Arr(<< >>) ELSE given

\* NOTIFICATION_LIST_API_ENDPOINT, API.notification.list
NotificationList == "notification/list"

\* the queries in the cache, each under the key its fetch hook gave it
\* ([url, params]; the key is written without the params that follow)
CachedQueries == { <<"posts">>, <<"posts", "1">>, <<"users">>, <<NotificationList>> }

\* a query key matches the queryKey of a filter with exact: false when the
\* filter's key is a prefix of it; the empty key matches every query
PartialMatchKey(queryKey, filterKey) ==
  /\ Len(filterKey) <= Len(queryKey)
  /\ \A i \in 1..Len(filterKey) : queryKey[i] = filterKey[i]

\* the cached queries the calls of refetchQueries made so far have refetched
RefetchedQueries(done) ==
  {q \in CachedQueries : \E filterKey \in done : PartialMatchKey(q, filterKey)}

\* queryClient.getQueryData([key])
GetQueryData(c, key) == c[key]

\* queryClient.setQueryData([key], data): undefined data writes nothing
SetQueryData(c, key, data) ==
  IF data = Undefined THEN c ELSE [c EXCEPT ![key] = data]

\* item.id?.toString()
IdToString(item) ==
  LET id == Field(item, "id")
  IN IF id.t \in {"undefined", "null"} THEN Undefined ELSE Str(TemplateString(id))

\* a comparison of the id as it is stored, without toString()
KeepItem_Strict(item, id) == Field(item, "id") # id

KeepItem(item, id) == IdToString(item) # id

\* useDelete.onMutate: the updater handed to setQueryData
RemoveItem(old, id) ==
  IF old.t = "array"
    THEN Arr(SelectSeq(old.items, LAMBDA item : KeepItem(item, id)))
    ELSE old

\* the optimistic value each hook writes
OptimisticData(h, old, v) == IF h = "usePut" THEN v ELSE RemoveItem(old, v)

\* an optimistic write under the last configured key
OnMutateCache_LastKey(h, keys, c, v) ==
  IF Len(keys) > 0
    THEN SetQueryData(c, keys[Len(keys)], OptimisticData(h, GetQueryData(c, keys[Len(keys)]), v))
    ELSE c

\* onMutate (both hooks): the cache afterwards
OnMutateCache(h, keys, c, v) ==
  IF Len(keys) > 0
    THEN SetQueryData(c, keys[1], OptimisticData(h, GetQueryData(c, keys[1]), v))
    ELSE c

\* onMutate in the log of the call: the write, when setQueryData changed
\* what the cache holds
OnMutateLog(log, h, keys, c, v) ==
  IF OnMutateCache(h, keys, c, v) # c
    THEN Append(log, "setQueryData")
    ELSE log

\* onMutate (both hooks): the context returned
OnMutateContext(keys, c) ==
  IF Len(keys) > 0
    THEN Obj([previousData |-> GetQueryData(c, keys[1]), queryKey |-> Str(keys[1])])
    ELSE Undefined

\* a rollback from one context kept for the hook, that of the first call
OnErrorCache_Shared(c, context) ==
  IF Truthy(Field(calls[1].context, "previousData")) /\ Truthy(Field(calls[1].context, "queryKey"))
    THEN SetQueryData(c, calls[1].context.f.queryKey.v, calls[1].context.f.previousData)
    ELSE c

\* onError (both hooks): if (context?.previousData && context?.queryKey)
OnErrorCache(c, context) ==
  IF Truthy(Field(context, "previousData")) /\ Truthy(Field(context, "queryKey"))
    THEN SetQueryData(c, context.f.queryKey.v, context.f.previousData)
    ELSE c

\* onSuccess (both hooks): options.invalidateQueries.forEach(invalidate)
OnSuccessInvalidated(keys, inv) == inv \cup {keys[i] : i \in 1..Len(keys)}

\* the test before the refetch: `if (refetchQueries)` in usePostData and
\* useDeleteData, `if (refetchQueries.length > 0)` in usePutData, usePatchData
RefetchGiven(h, keys) ==
  IF h \in {"usePostData", "useDeleteData"} THEN Truthy(keys) ELSE Len(keys.items) > 0

\* onSuccess of the hooks that refetch: refetchQueries({ queryKey: refetchQueries })
\* when keys were given, then (production hooks) the refetch of the
\* notification list
OnSuccessRefetched(h, keys, done) ==
  done \cup (IF RefetchGiven(h, keys) THEN {keys.items} ELSE {})
       \cup (IF h \in ProdMutationHooks THEN {<<NotificationList>>} ELSE {})

\* the retryer: a failed mutationFn is run again while failureCount < retry
ShouldRetry(failureCount) == failureCount < MutationRetry

CancelledError == Error("Error", "Deletion cancelled")

IdleCall ==
  [pc |-> "idle", variables |-> Undefined, context |-> Undefined, failureCount |-> 0,
   before |-> [k \in Keys |-> Undefined], cancelled |-> FALSE, requests |-> 0,
   error |-> NoError, result |-> Pending, log |-> << >>]

InitMut ==
  /\ mhook \in MutationHooks \cup RefetchHooks
  /\ invalidateQueries \in (IF mhook \in MutationHooks THEN KeyLists ELSE {<< >>})
  /\ refetchQueries \in (IF mhook \in RefetchHooks
                           THEN {RefetchDefault(mhook, given) : given \in RefetchInputs}
                           ELSE {Undefined})
  /\ confirmMessage \in (IF mhook = "useDelete" THEN BOOLEAN ELSE {FALSE})
  /\ overrides \in OverrideSets
  /\ cache \in {[k \in Keys |-> IF k = "posts" THEN p ELSE Arr(<<D1>>)] : p \in PriorValues}
  /\ invalidated = {}
  /\ refetched = {}
  /\ calls = [c \in Calls |-> IdleCall]

\* mutation.mutate(variables)
Mutate(c, v) ==
  /\ calls[c].pc = "idle"
  /\ calls' = [calls EXCEPT ![c].pc = "onMutate", ![c].variables = v, ![c].before = cache]
  /\ UNCHANGED <<mhook, invalidateQueries, refetchQueries, confirmMessage, overrides, cache, invalidated,
                 refetched>>
  /\ UNCHANGED <<reqVars, qsVars>>

\* onMutate once cancelQueries has resolved; a caller's onMutate among the
\* options replaces the hook's (the options are spread last)
OnMutate(c) ==
  /\ calls[c].pc = "onMutate"
  /\ IF "onMutate" \in overrides \/ mhook \in RefetchHooks \cup {"usePost"}
       THEN /\ cache' = cache
            /\ calls' = [calls EXCEPT ![c].pc = "mutationFn"]
       ELSE /\ cache' = OnMutateCache(mhook, invalidateQueries, cache, calls[c].variables)
            /\ calls' = [calls EXCEPT ![c].pc = "mutationFn",
                                      ![c].context = OnMutateContext(invalidateQueries, cache),
                                      ![c].log = OnMutateLog(@, mhook, invalidateQueries, cache,
                                                             calls[c].variables)]
  /\ UNCHANGED <<mhook, invalidateQueries, refetchQueries, confirmMessage, overrides, invalidated,
                 refetched>>
  /\ UNCHANGED <<reqVars, qsVars>>

\* the retryer's verdict on a failure of mutationFn
Failed(call, e) ==
  IF ShouldRetry(call.failureCount)
    THEN [call EXCEPT !.pc = "mutationFn", !.failureCount = @ + 1]
    ELSE [call EXCEPT !.pc = "failed", !.failureCount = @ + 1, !.error = e]

\* useDelete.mutationFn: window.confirm answered no
ConfirmDeclined(c) ==
  /\ calls[c].pc = "mutationFn"
  /\ mhook = "useDelete" /\ confirmMessage
  /\ calls' = [calls EXCEPT ![c] = Failed([@ EXCEPT !.cancelled = (@ \/ calls[c].requests = 0)],
                                          CancelledError)]
  /\ UNCHANGED <<mhook, invalidateQueries, refetchQueries, confirmMessage, overrides, cache, invalidated,
                 refetched>>
  /\ UNCHANGED <<reqVars, qsVars>>

\* mutationFn sends its request (useDelete: no prompt, or the prompt
\* answered yes)
SendRequest(c) ==
  /\ calls[c].pc = "mutationFn"
  /\ calls' = [calls EXCEPT ![c].pc = "inFlight", ![c].requests = @ + 1,
                            ![c].log = Append(@, "request")]
  /\ UNCHANGED <<mhook, invalidateQueries, refetchQueries, confirmMessage, overrides, cache, invalidated,
                 refetched>>
  /\ UNCHANGED <<reqVars, qsVars>>

\* the request succeeds
RequestSucceeds(c) ==
  /\ calls[c].pc = "inFlight"
  /\ calls' = [calls EXCEPT ![c].pc = "succeeded", ![c].log = Append(@, "response")]
  /\ UNCHANGED <<mhook, invalidateQueries, refetchQueries, confirmMessage, overrides, cache, invalidated,
                 refetched>>
  /\ UNCHANGED <<reqVars, qsVars>>

\* the request fails: axiosDemo rejects with the AxiosError
RequestFails(c, status) ==
  /\ calls[c].pc = "inFlight"
  /\ calls' = [calls EXCEPT ![c] = Failed([@ EXCEPT !.log = Append(@, "response")],
                                          AxiosError(status))]
  /\ UNCHANGED <<mhook, invalidateQueries, refetchQueries, confirmMessage, overrides, cache, invalidated,
                 refetched>>
  /\ UNCHANGED <<reqVars, qsVars>>

\* onSuccess, then the mutation is in its success state
OnSuccess(c) ==
  /\ calls[c].pc = "succeeded"
  /\ invalidated' = IF "onSuccess" \in overrides \/ mhook \in RefetchHooks
                      THEN invalidated
                      ELSE OnSuccessInvalidated(invalidateQueries, invalidated)
  /\ refetched' = IF "onSuccess" \in overrides \/ mhook \in MutationHooks
                    THEN refetched
                    ELSE OnSuccessRefetched(mhook, refetchQueries, refetched)
  /\ calls' = [calls EXCEPT ![c].pc = "success", ![c].result = Resolved(Undefined)]
  /\ UNCHANGED <<mhook, invalidateQueries, refetchQueries, confirmMessage, overrides, cache>>
  /\ UNCHANGED <<reqVars, qsVars>>

\* onError in the log of the call: the rollback when the hook's own onError
\* runs and takes its branch, then the error handed to the caller
OnErrorLog(log, context) ==
  IF "onError" \in overrides \/ mhook \in RefetchHooks \cup {"usePost"}
    THEN Append(log, "onError")
    ELSE IF Truthy(Field(context, "previousData")) /\ Truthy(Field(context, "queryKey"))
      THEN log \o <<"rollback", "onError">>
      ELSE Append(log, "onError")

\* an onError that also invalidates the configured keys
OnError_Invalidates(c) ==
  /\ calls[c].pc = "failed"
  /\ cache' = IF "onError" \in overrides \/ mhook \in RefetchHooks \cup {"usePost"}
              THEN cache
              ELSE OnErrorCache(cache, calls[c].context)
  /\ invalidated' = OnSuccessInvalidated(invalidateQueries, invalidated)
  /\ calls' = [calls EXCEPT ![c].pc = "error", ![c].result = Rejected(calls[c].error),
                            ![c].log = OnErrorLog(@, calls[c].context)]
  /\ UNCHANGED <<mhook, invalidateQueries, refetchQueries, confirmMessage, overrides, refetched>>
  /\ UNCHANGED <<reqVars, qsVars>>

\* onError, then the mutation is in its error state
OnError(c) ==
  /\ calls[c].pc = "failed"
  /\ cache' = IF "onError" \in overrides \/ mhook \in RefetchHooks \cup {"usePost"}
              THEN cache
              ELSE OnErrorCache(cache, calls[c].context)
  /\ calls' = [calls EXCEPT ![c].pc = "error", ![c].result = Rejected(calls[c].error),
                            ![c].log = OnErrorLog(@, calls[c].context)]
  /\ UNCHANGED <<mhook, invalidateQueries, refetchQueries, confirmMessage, overrides, invalidated,
                 refetched>>
  /\ UNCHANGED <<reqVars, qsVars>>

\* the pipeline variables while the mutation hooks are followed, and the
\* mutation variables while the pipeline is
IdleReq ==
  /\ hasWindow = TRUE
  /\ storage = << >>
  /\ location = "/app"
  /\ hook = "none"
  /\ variables = Undefined
  /\ options = [params |-> << >>, headers |-> NoHeaders, enabled |-> TRUE,
                queryOptions |-> NoQueryOptions]
  /\ credential = Undefined
  /\ config = [method |-> "", url |-> "", data |-> Undefined, headers |-> NoHeaders]
  /\ rpc = "idle"
  /\ sent = 0
  /\ resp = Response(0, Undefined)
  /\ err = NoError
  /\ intercepted = Pending
  /\ instResult = Pending
  /\ outcome = Pending
  /\ signedOut = FALSE

IdleQuery ==
  /\ qsParams = Undefined
  /\ qsResult = Pending

IdleMut ==
  /\ mhook = "none"
  /\ invalidateQueries = << >>
  /\ refetchQueries = Undefined
  /\ confirmMessage = FALSE
  /\ overrides = {}
  /\ cache = [k \in Keys |-> Undefined]
  /\ invalidated = {}
  /\ refetched = {}
  /\ calls = [c \in Calls |-> IdleCall]

Init == InitReq /\ IdleMut /\ IdleQuery

Next ==
  \/ \E h \in Hooks : \E v \in HookVariables(h), params \in HookParams(h),
                         headers \in HookHeaders(h), query \in HookQuery(h) :
         CallHook(h, v, params, headers, query)
  \/ RequestInterceptor
  \/ \E accessToken \in TokenResults : RequestInterceptorAsync(accessToken)
  \/ RequestInterceptorThrows
  \/ \E status \in SuccessStatuses \cup ErrorStatuses :
       \E body \in Bodies(status) : Network(status, body)
  \/ ResponseFulfilled
  \/ ResponseRejected
  \/ ResponseRejectedAsync
  \/ ResponseRejectedSignOutThrows
  \/ InstanceSettles
  \/ HookSettles

Spec == Init /\ [][Next]_vars

InitMutation == InitMut /\ IdleReq /\ IdleQuery

NextMut ==
  \/ \E c \in Calls : \E v \in MutateVariables(mhook) : Mutate(c, v)
  \/ \E c \in Calls : OnMutate(c)
  \/ \E c \in Calls : ConfirmDeclined(c)
  \/ \E c \in Calls : SendRequest(c)
  \/ \E c \in Calls : RequestSucceeds(c)
  \/ \E c \in Calls : \E status \in {0, 500} : RequestFails(c, status)
  \/ \E c \in Calls : OnSuccess(c)
  \/ \E c \in Calls : OnError(c)

SpecMut == InitMutation /\ [][NextMut]_vars

\* Every step of a started call is eventually taken: the callbacks are run by
\* the engine, the prompt is answered and the server (or the timeout of the
\* client) ends every request.
FairMut ==
  \A c \in Calls :
    /\ WF_vars(OnMutate(c))
    /\ WF_vars(ConfirmDeclined(c) \/ SendRequest(c))
    /\ WF_vars(RequestSucceeds(c) \/ \E status \in {0, 500} : RequestFails(c, status))
    /\ WF_vars(OnSuccess(c))
    /\ WF_vars(OnError(c))

SpecMutFair == SpecMut /\ FairMut

-----------------------------------------------------------------------------
(* Calls of buildQueryString on their own.                                 *)

\* the largest number of keys of a params object
MaxParams == 2

QueryKeys == { <<"k">>, <<"t">>, <<"k", "=", "t">> }

QueryValues ==
  { Null, Undefined, Str(<< >>), Str(<<"x">>), Str(<<"a", " ", "b">>),
    Str(<<"x", "&", "k", "=", "y">>), Num(0), Num(15), Bool(FALSE),
    Arr(<< >>), Arr(<<Str(<<"x">>), Str(<<"y">>)>>), Arr(<<Str(<<"y">>), Str(<<"x">>)>>),
    Arr(<<Str(<<"x">>), Str(<<"x">>)>>), Arr(<<Null, Num(1), Str(<< >>)>>),
    Arr(<<Str(<<"a", "&", "b">>)>>) }

\* the keys of an object are distinct
DistinctKeys(entries) ==
  \A i, j \in 1..Len(entries) : i # j => entries[i].key # entries[j].key

QueryEntries ==
  { e \in UNION { [1..n -> [key : QueryKeys, value : QueryValues]] : n \in 0..MaxParams } :
      DistinctKeys(e) }

\* a params object, or the argument left out
QueryInputs == { Params(e) : e \in QueryEntries } \cup { Undefined, Null }

InitQuery ==
  /\ qsParams \in QueryInputs
  /\ qsResult = Pending

CallBuildQueryString ==
  /\ qsResult = Pending
  /\ qsResult' = Resolved(buildQueryString(qsParams))
  /\ UNCHANGED qsParams
  /\ UNCHANGED <<reqVars, mutVars>>

NextQuery == CallBuildQueryString

InitQueryString == InitQuery /\ IdleReq /\ IdleMut

SpecQuery == InitQueryString /\ [][NextQuery]_vars

-----------------------------------------------------------------------------
(* Claims about the request pipeline.                                      *)

\* the variables carry both an id and a payload field
HasIdAndPayload(v) == v.t = "object" /\ {"id", "payload"} \subseteq DOMAIN v.f

\* the request has been built (and, from "response" on, sent)
Built == rpc # "idle"

\* the promise of the instance has settled: the caller sees the result
Surfaced == rpc \in {"settled", "done"}

TransportHooks == ProdHooks \cup DemoHooks

\* the body is an envelope that came back on a 2xx response
EnvelopeArrived == resp.status \in SuccessStatuses /\ resp.data \in Envelopes

EnvelopeSuccess(e) ==
  Field(e, "statusCode") \in {Num(200), Num(201)} /\ Field(e, "error") = Bool(FALSE)

\* C3: usePutData (both files), variables {id, payload} with a non-empty
\* string id: the request goes to url + "/" + id and its body is exactly the
\* payload.
C3_CompositeUrlAndBody ==
  (hook \in PutHooks /\ Built /\ HasIdAndPayload(variables)
     /\ variables.f.id.t = "string" /\ variables.f.id.v # "")
  => /\ config.url = Url \o "/" \o variables.f.id.v
     /\ config.data = variables.f.payload
     /\ config.method = "PUT"

C3_Witness ==
  /\ hook = "usePutDataDemo" /\ rpc = "response" /\ sent = 1
  /\ variables = Obj([id |-> Str("42"), payload |-> P1])
  /\ config.url = "/posts/42" /\ config.data = P1

\* C4: usePutData (both files), variables that do not carry both id and
\* payload (a non-object, null, an object with one of the two): the url is
\* the configured one and the body is the variables themselves.
C4_BarePayloadUnchanged ==
  (hook \in PutHooks /\ Built /\ ~HasIdAndPayload(variables))
  => /\ config.url = Url
     /\ config.data = variables
     /\ config.method = "PUT"

C4_Witness ==
  /\ hook = "usePutData" /\ rpc = "response" /\ sent = 1
  /\ variables = Obj([id |-> Str("42")])
  /\ config.url = "/posts" /\ config.data = variables

\* C5: a request of the transport instance that failed with HTTP 401 reaches
\* the caller with localStorage empty and as a rejection with the original
\* error.
C5_UnauthorizedClearsAndRethrows ==
  (hook \in TransportHooks /\ Surfaced /\ hasWindow /\ err.status = 401)
  => /\ storage = << >>
     /\ instResult = Rejected(err)

\* C6: on a 401 the interceptor has, when the error is surfaced, cleared
\* localStorage and redirected to the sign-in page, and sent nothing more.
C6_UnauthorizedClearsAndRedirects ==
  (hook \in TransportHooks /\ Surfaced /\ hasWindow /\ err.status = 401
     /\ instResult = Rejected(err))
  => /\ storage = << >>
     /\ location = "/login"
     /\ sent = 1

\* C7: the fetch hook resolves with exactly the data D of the success
\* envelope {statusCode: 200, error: false, data: D} and rejects with the
\* message M of a failure envelope {statusCode: 404, error: true, message: M}
\* (envelopes that came back on an HTTP 200).
C7_FetchFollowsEnvelope ==
  (hook \in FetchHooks /\ rpc = "done" /\ resp.status = 200 /\ resp.data \in Envelopes)
  => LET e == resp.data IN
     /\ (e.f.statusCode = Num(200) /\ e.f.error = Bool(FALSE) /\ HasField(e, "data"))
          => outcome = Resolved(e.f.data)
     /\ (e.f.statusCode = Num(404) /\ e.f.error = Bool(TRUE) /\ HasField(e, "message"))
          => (outcome.k = "rejected" /\ outcome.e.message = e.f.message.v)

\* C8: the fulfilled handler of the response interceptor returns the data
\* exactly when statusCode is 200 or 201 and error is false, otherwise throws
\* an error with the envelope's message, and never returns undefined.
C8_SuccessHandlerRule ==
  (hook \in TransportHooks /\ rpc = "intercepted" /\ EnvelopeArrived)
  => LET e == resp.data IN
     /\ (intercepted.k = "resolved") <=> EnvelopeSuccess(e)
     /\ (~EnvelopeSuccess(e) /\ HasField(e, "message"))
          => (intercepted.k = "rejected" /\ intercepted.e.message = e.f.message.v)
     /\ intercepted # Resolved(Undefined)

\* C9: an envelope without a data field always reaches the caller as a
\* failure.
C9_MissingDataFails ==
  (hook \in TransportHooks /\ rpc = "done" /\ EnvelopeArrived
     /\ ~HasField(resp.data, "data"))
  => outcome.k = "rejected"

\* C10: after the request interceptor, Authorization is "Bearer " + credential
\* when a non-empty credential is available and is left as it was otherwise.
C10_BearerOnlyWithCredential ==
  (rpc = "wire")
  => IF Truthy(credential)
       THEN config.headers.Authorization = Str("Bearer " \o credential.v)
       ELSE config.headers.Authorization = options.headers.Authorization

\* the request carries a body: axios serialises every value but undefined,
\* and null stands for no body
BodyPresent(data) == data.t \notin {"undefined", "null"}

\* the Content-Type the request had when it entered the interceptor
ContentTypeBefore == Coalesce(options.headers.ContentType, DefaultContentType(InstanceOf(hook)))

\* C11: after the request interceptor, Content-Type is multipart/form-data for
\* a FormData body, else application/json;charset=utf-8 when a body is
\* present, and is left as it was when there is no body.
C11_ContentTypeByBody ==
  (hook \in TransportHooks /\ rpc = "wire")
  => IF config.data = FormData
       THEN config.headers.ContentType = Str("multipart/form-data")
       ELSE IF BodyPresent(config.data)
         THEN config.headers.ContentType = Str("application/json;charset=utf-8")
         ELSE config.headers.ContentType = ContentTypeBefore

\* C12: when the credential lookup of the request interceptor rejects, the
\* request is never put on the network and the caller is rejected with that
\* error; no request goes out before the lookup has completed.
C12_TokenFailureAborts ==
  (hook \in ProdHooks /\ hasWindow)
  => /\ err = TokenError => sent = 0
     /\ (err = TokenError /\ Surfaced) => instResult = Rejected(TokenError)
     /\ (err = TokenError /\ rpc = "done") => outcome = Rejected(TokenError)
     /\ sent > 0 => credential # Undefined

C12_Witness ==
  /\ hook = "usePostData" /\ hasWindow /\ rpc = "done"
  /\ err = TokenError /\ sent = 0 /\ outcome = Rejected(TokenError)

\* C22: while the enabled input of useFetchData is false the hook starts no
\* request, whatever queryOptions are passed with it.
C22_DisabledFetchSendsNothing ==
  (hook \in FetchHooks /\ ~options.enabled) => (rpc = "disabled" /\ sent = 0)

\* C23: on the error path of the response interceptor, a failure whose status
\* is not 401 (403, 500, another status, no response) leaves localStorage as
\* it is, redirects nowhere and rejects the caller with the error received.
C23_OtherErrorsPassThrough ==
  /\ [][(rpc = "rejected" /\ err.status # 401)
          => /\ storage' = storage
             /\ location' = location
             /\ signedOut' = signedOut
             /\ intercepted' = Rejected(err)]_vars
  /\ []((Surfaced /\ err # NoError /\ err.status # 401)
          => (instResult = Rejected(err) /\ location = "/app" /\ ~signedOut))

C23_Witness ==
  /\ hook = "usePostData" /\ rpc = "settled" /\ err = AxiosError(500)
  /\ storage = [user |-> "alice"] /\ location = "/app"
  /\ instResult = Rejected(AxiosError(500))

\* the hooks whose function tests the envelope it was handed
EnvelopeHooks == {"useFetchData"} \cup PostHooks \cup PutHooks

\* C24: every hook that reads the envelope takes it for a success exactly when
\* statusCode is 200 or 201 and error is false, so that all hooks agree on
\* every envelope.
C24_SameSuccessRule ==
  (hook \in EnvelopeHooks /\ rpc = "done" /\ instResult.k = "resolved"
     /\ HasField(instResult.v, "data"))
  => ((outcome.k = "resolved") <=> EnvelopeSuccess(instResult.v))

\* the status code a failed request failed with: the HTTP status of an error
\* response, else the statusCode of the envelope
FailureCode ==
  IF resp.status \in SuccessStatuses
    THEN (IF resp.data \in Envelopes THEN resp.data.f.statusCode.v ELSE 0)
    ELSE resp.status

\* C18: usePutData: an update that failed with status code 400 or 401 reaches
\* the caller as an error whose statusCode field is that code; an error of any
\* other failure that came out of the instance is passed on as it is.
C18_StatusCodeOn400And401 ==
  (hook \in PutHooks /\ rpc = "done" /\ sent = 1 /\ outcome.k = "rejected")
  => /\ FailureCode \in {400, 401} => outcome.e.statusCode = FailureCode
     /\ (FailureCode \notin {400, 401} /\ instResult.k = "rejected") => outcome = instResult

-----------------------------------------------------------------------------
(* Claims about buildQueryString.  The output is read back the way a       *)
(* server reads a query string: split at "&", each segment split at its    *)
(* first "=", both sides unescaped.                                        *)

\* the pieces of s between the occurrences of the character c
RECURSIVE Split(_, _)
Split(s, c) ==
  IF \A i \in 1..Len(s) : s[i] # c THEN <<s>>
  ELSE LET i == CHOOSE k \in 1..Len(s) : s[k] = c /\ \A j \in 1..(k - 1) : s[j] # c
       IN <<SubSeq(s, 1, i - 1)>> \o Split(SubSeq(s, i + 1, Len(s)), c)

Unescape(hex) ==
  CASE hex = <<"2", "0">> -> " "
    [] hex = <<"2", "5">> -> "%"
    [] hex = <<"2", "6">> -> "&"
    [] hex = <<"2", "C">> -> ","
    [] hex = <<"3", "D">> -> "="
    [] hex = <<"3", "F">> -> "?"
    [] hex = <<"5", "B">> -> "["
    [] hex = <<"5", "D">> -> "]"
    [] OTHER              -> "%"

RECURSIVE decodeURIComponent(_)
decodeURIComponent(s) ==
  IF s = << >> THEN << >>
  ELSE IF Head(s) = "%" /\ Len(s) >= 3
    THEN <<Unescape(SubSeq(s, 2, 3))>> \o decodeURIComponent(SubSeq(s, 4, Len(s)))
    ELSE <<Head(s)>> \o decodeURIComponent(Tail(s))

\* the segments of a query string, its leading "?" taken off
Segments(q) == IF q = << >> THEN << >> ELSE Split(Tail(q), "&")

\* a segment read as a pair
Pair(seg) ==
  LET parts == Split(seg, "=")
  IN [key   |-> decodeURIComponent(parts[1]),
      value |-> decodeURIComponent(Join(Tail(parts), <<"=">>))]

Pairs(q) == [i \in 1..Len(Segments(q)) |-> Pair(Segments(q)[i])]

\* the values the query string carries for a key, in its order
ValuesOf(q, key) ==
  LET mine == SelectSeq(Pairs(q), LAMBDA p : p.key = key)
  IN [i \in 1..Len(mine) |-> mine[i].value]

QueryDone == qsResult # Pending /\ qsParams.t = "object"

\* the number of pairs the params call for
RECURSIVE PairsExpected(_)
PairsExpected(entries) ==
  IF entries = << >> THEN 0
  ELSE (CASE Head(entries).value.t \in {"null", "undefined"} -> 0
          [] Head(entries).value.t = "array" -> Len(Head(entries).value.items)
          [] OTHER -> 1) + PairsExpected(Tail(entries))

\* C13: for an array-valued key k = [v1..vn] the output of buildQueryString
\* carries exactly n pairs k=vi, one per element, in the order of the
\* elements, and none for an empty array.
C13_ArrayOnePairPerElement ==
  QueryDone =>
    \A i \in 1..Len(qsParams.entries) :
      LET e == qsParams.entries[i] IN
      e.value.t = "array"
        => ValuesOf(qsResult.v, e.key) = [j \in 1..Len(e.value.items) |-> StringOf(e.value.items[j])]

C13_Witness ==
  /\ QueryDone
  /\ qsParams.entries = <<[key |-> <<"k">>, value |-> Arr(<<Str(<<"y">>), Str(<<"x">>)>>)],
                          [key |-> <<"t">>, value |-> Str(<<"x">>)]>>
  /\ qsResult.v = <<"?", "k", "=", "y", "&", "k", "=", "x", "&", "t", "=", "x">>

\* C14: a key whose value is null or undefined is absent from the output, and
\* the pairs of the other keys are joined by single "&", with no empty
\* segment (no leading, trailing or doubled "&").
C14_NullKeysAbsentCleanJoin ==
  QueryDone =>
    /\ \A i \in 1..Len(qsParams.entries) :
         LET e == qsParams.entries[i] IN
         e.value.t \in {"null", "undefined"} => ValuesOf(qsResult.v, e.key) = << >>
    /\ \A i \in 1..Len(Segments(qsResult.v)) :
         /\ Segments(qsResult.v)[i] # << >>
         /\ \E j \in 1..Len(Segments(qsResult.v)[i]) : Segments(qsResult.v)[i][j] = "="
    /\ Len(Segments(qsResult.v)) = PairsExpected(qsParams.entries)

C14_Witness ==
  /\ QueryDone
  /\ qsParams.entries = <<[key |-> <<"k">>, value |-> Null],
                          [key |-> <<"t">>, value |-> Arr(<<Str(<<"x">>), Str(<<"y">>)>>)]>>
  /\ qsResult.v = <<"?", "t", "=", "x", "&", "t", "=", "y">>

\* C15: an empty or absent params object gives the empty string, and the
\* output starts with "?" exactly when at least one pair is emitted: never a
\* bare "?".
C15_MarkOnlyWithPairs ==
  qsResult # Pending =>
    /\ (qsParams.t # "object" \/ qsParams.entries = << >>) => qsResult.v = << >>
    /\ qsParams.t = "object" =>
         /\ (PairsExpected(qsParams.entries) > 0) <=> (qsResult.v # << >>)
         /\ qsResult.v # << >> => (Head(qsResult.v) = "?" /\ Len(qsResult.v) > 1)

C15_Witness ==
  /\ qsResult = Resolved(<< >>)
  /\ qsParams = Params(<<[key |-> <<"k">>, value |-> Null], [key |-> <<"t">>, value |-> Arr(<< >>)]>>)

-----------------------------------------------------------------------------
(* Claims about the optimistic mutation hooks.                             *)

Settled(c) == calls[c].pc \in {"success", "error"}

OnlyCall(c) == \A d \in Calls \ {c} : calls[d].pc = "idle"

\* C1: usePut / useDelete with a cache key and no callbacks of the caller:
\* once a mutate call has failed after its optimistic write, the cache holds
\* under invalidateQueries[0] what it held right before the call, whatever
\* that was (an object, a list, an empty list, null, no entry).
C1_FailureRestoresPrior ==
  \A c \in Calls :
    (calls[c].pc = "error" /\ OnlyCall(c) /\ overrides = {}
       /\ Len(invalidateQueries) > 0 /\ calls[c].context # Undefined)
    => cache[invalidateQueries[1]] = calls[c].before[invalidateQueries[1]]

\* C2: useDelete with a confirmMessage: once the user has declined the
\* prompt, the mutate call sends no DELETE request, retries included, and ends
\* in the error state with the error 'Deletion cancelled'.
C2_DeclineSendsNothing ==
  \A c \in Calls :
    (mhook = "useDelete" /\ confirmMessage /\ calls[c].cancelled)
    => /\ calls[c].requests = 0
       /\ Settled(c) => calls[c].result = Rejected(CancelledError)

\* C16: usePost, usePut and useDelete set up with invalidateQueries: a mutate
\* call that ended in success has invalidated every configured key, whatever
\* callbacks the caller passed among the options.
C16_SuccessInvalidatesKeys ==
  \A c \in Calls :
    calls[c].pc = "success"
    => \A i \in 1..Len(invalidateQueries) : invalidateQueries[i] \in invalidated

\* C17: usePostData, usePutData and usePatchData: a mutate call that ended in
\* success has refetched the notification list, whatever refetchQueries and
\* other options the hook was set up with.
C17_SuccessRefetchesNotifications ==
  \A c \in Calls :
    (mhook \in ProdMutationHooks /\ calls[c].pc = "success")
    => <<NotificationList>> \in refetched

\* the steps of one mutate call
LifecycleSteps ==
  { <<"idle", "onMutate">>, <<"onMutate", "mutationFn">>, <<"mutationFn", "inFlight">>,
    <<"mutationFn", "failed">>, <<"inFlight", "mutationFn">>, <<"inFlight", "succeeded">>,
    <<"inFlight", "failed">>, <<"succeeded", "success">>, <<"failed", "error">> }

\* a result has been surfaced exactly in the matching terminal state
ResultMatchesState(c) ==
  /\ (calls[c].result.k = "rejected") <=> (calls[c].pc = "error")
  /\ (calls[c].result.k = "resolved") <=> (calls[c].pc = "success")

Before(log, e, i) == \E j \in DOMAIN log : j < i /\ log[j] = e

Logged(log, e) == \E j \in DOMAIN log : log[j] = e

\* C20: within a mutate call of usePut / useDelete that made an optimistic
\* write, the write comes before the request is issued, and on failure the
\* rollback comes before the error is handed to the caller's onError.
C20_WriteThenRequestRollbackThenError ==
  \A c \in Calls :
    (mhook \in {"usePut", "useDelete"} /\ Logged(calls[c].log, "setQueryData"))
    => \A i \in 1..Len(calls[c].log) :
         /\ calls[c].log[i] = "setQueryData" => ~Before(calls[c].log, "request", i)
         /\ calls[c].log[i] = "onError" => Before(calls[c].log, "rollback", i)

\* the step of call c from one position to another
Step(c, from, to) == calls[c].pc = from /\ calls'[c].pc = to

\* C21: every mutate call has its own context {previousData, queryKey}: it
\* is made by the call's own onMutate from what the cache holds then and is
\* never replaced, the rollback of a failing call writes the snapshot of that
\* same call, and a context is used by at most one terminal step.
C21_OwnContext ==
  /\ [][\A c \in Calls :
          /\ calls'[c].context # calls[c].context
               => /\ Step(c, "onMutate", "mutationFn")
                  /\ calls[c].context = Undefined
                  /\ calls'[c].context.f.previousData = cache[invalidateQueries[1]]
          /\ (Step(c, "failed", "error") /\ cache' # cache)
               => cache'[invalidateQueries[1]] = calls[c].context.f.previousData
          /\ Settled(c) => calls'[c] = calls[c]]_vars
  /\ [](\A c \in Calls : ~(calls[c].pc = "success" /\ Logged(calls[c].log, "rollback")))

C21_Witness ==
  /\ mhook = "usePut" /\ overrides = {} /\ invalidateQueries = <<"posts">>
  /\ calls[1].pc = "error" /\ calls[1].context.f.previousData = P1
  /\ calls[2].pc = "error" /\ calls[2].context.f.previousData = D1
  /\ cache["posts"] = P1

\* the id of an item written as a string, "" for an item without one
IdText(item) ==
  IF ~HasField(item, "id") THEN ""
  ELSE IF item.f.id.t = "number" THEN ToString(item.f.id.v)
  ELSE IF item.f.id.t = "string" THEN item.f.id.v ELSE ""

\* the positions of the items of a list whose id is not i
RECURSIVE Without(_, _)
Without(items, i) ==
  IF items = << >> THEN << >>
  ELSE (IF IdText(Head(items)) = i THEN << >> ELSE <<Head(items)>>) \o Without(Tail(items), i)

\* C25: useDelete.onMutate with a key and the id i: a cached list becomes the
\* same list without the items whose id, as a string, is i, the others in
\* their order; a cached value that is not a list stays as it is; the context
\* returned holds the prior value.
C25_OptimisticRemoval ==
  [][\A c \in Calls :
       (mhook = "useDelete" /\ "onMutate" \notin overrides /\ Len(invalidateQueries) > 0
          /\ Step(c, "onMutate", "mutationFn"))
       => LET key   == invalidateQueries[1]
              prior == cache[key]
          IN /\ cache'[key] = IF prior.t = "array"
                                THEN Arr(Without(prior.items, calls[c].variables.v))
                                ELSE prior
             /\ \A k \in Keys \ {key} : cache'[k] = cache[k]
             /\ calls'[c].context = Obj([previousData |-> prior, queryKey |-> Str(key)])]_vars

C25_Witness ==
  /\ mhook = "useDelete" /\ overrides = {} /\ invalidateQueries = <<"posts">>
  /\ calls[1].pc = "mutationFn" /\ calls[1].variables = Str("1") /\ calls[2].pc = "idle"
  /\ calls[1].context.f.previousData = Arr(<<I2, P1, D1, I2>>)
  /\ cache["posts"] = Arr(<<I2, P1, I2>>)

\* C26: usePostData, usePutData, usePatchData and useDeleteData set up with
\* the refetch keys K1..Kn, n >= 1: once a mutate call has ended in success,
\* every cached query whose key begins with one of the Ki has been
\* refetched.
C26_EachKeyRefetched ==
  \A c \in Calls :
    (mhook \in RefetchHooks /\ "onSuccess" \notin overrides /\ Truthy(refetchQueries)
       /\ calls[c].pc = "success")
    => \A i \in 1..Len(refetchQueries.items) :
         \A q \in CachedQueries :
           PartialMatchKey(q, <<refetchQueries.items[i]>>) => q \in RefetchedQueries(refetched)

\* C27: two mutate calls of usePut (or useDelete) on the same cache key,
\* started from the same cached value and run by the hook's own callbacks,
\* that both end in failure: once both have settled, the cache holds under
\* the key the value it held before the calls (shown for a prior value the
\* rollback restores, one that is not undefined, null or empty).
C27_FailedCallsLeaveNoTrace ==
  \A c, d \in Calls :
    (/\ c # d
     /\ mhook \in {"usePut", "useDelete"} /\ overrides = {} /\ Len(invalidateQueries) > 0
     /\ calls[c].pc = "error" /\ calls[d].pc = "error"
     /\ \A e \in Calls \ {c, d} : calls[e].pc = "idle"
     /\ calls[c].before = calls[d].before
     /\ Truthy(calls[c].before[invalidateQueries[1]]))
    => cache[invalidateQueries[1]] = calls[c].before[invalidateQueries[1]]

C29_RefetchesOnlyConfigured ==
  \A c \in Calls :
    (mhook \in {"useDeleteData", "usePostData"} /\ calls[c].pc = "success")
    => \A q \in RefetchedQueries(refetched) :
         \/ mhook = "usePostData" /\ PartialMatchKey(q, <<NotificationList>>)
         \/ /\ Truthy(refetchQueries)
            /\ \E i \in 1..Len(refetchQueries.items) :
                 PartialMatchKey(q, <<refetchQueries.items[i]>>)

\* C30: useDelete with a confirmMessage: the prompt is answered before the
\* cache is touched, so while a deletion the user declined is the only call
\* the cache holds what it held when mutate was called.
C30_PromptBeforeCacheWrite ==
  \A c \in Calls :
    (mhook = "useDelete" /\ confirmMessage /\ OnlyCall(c)
       /\ calls[c].cancelled /\ calls[c].requests = 0)
    => cache = calls[c].before

====
